---- MODULE Spec2Model ----
(***************************************************************************)
(* Model of backtset_overfitting_simulation                                *)
(* (RiskLabAI/backtest/backtset_overfitting_in_the_machine_learning_era_   *)
(* simulation.py): the grid sweep over strategy parameters, models,        *)
(* hyper-parameters and cross-validation schemes (lines 135-213), the      *)
(* trial executor's series arithmetic (lines 202-205) and the overfitting  *)
(* aggregation loop (lines 215-240).                                       *)
(*                                                                         *)
(* External collaborators (CV schemes, bet sizing, the statistics) are     *)
(* modelled by their call contract: their outputs are chosen               *)
(* nondeterministically from bounded sets, and the statistics are          *)
(* uninterpreted functions of the chunk they are computed from.            *)
(*                                                                         *)
(* Specifications:                                                         *)
(*   Spec      the whole run: sweep, then aggregation, then return         *)
(*   SpecAgg   the aggregation loop over arbitrary trial buckets           *)
(*   SpecProb  line 203, combining the per-path probability arrays         *)
(*   SpecRet   lines 204-205, positions and the log-return series          *)
(***************************************************************************)
EXTENDS Integers, Sequences, FiniteSets, TLC

VARIABLES
    strategy_parameters,            \* the strategy grid: [keys, fast_window, slow_window]
    models,                         \* the model registry: one hyper-parameter grid per model
    overfitting_partitions_length,  \* the configured chunk length
    cell_returns,                   \* per CV scheme: first timestamp of the return series its cells yield
    pc,                             \* position of the run
    combo,                          \* 0-based position in itertools.product of the strategy grid
    strategy_params,                \* the current strategy combination <<fast, slow>>
    side_calls,                     \* the calls of determine_strategy_side made so far (line 151)
    mi,                             \* 1-based position in models.items()
    pj,                             \* 1-based position in itertools.product of the model grid
    ci,                             \* 1-based position in cross_validators.items()
    results,                        \* the trial store: CV scheme -> list of trials
    error,                          \* the exception that ended the run, "none" otherwise
    cv_deflated_sr,                 \* CV scheme -> list of deflated Sharpe statistics
    cv_pbo,                         \* CV scheme -> list of PBO values
    ai,                             \* 1-based position in results.items() of the aggregation loop
    chunks,                         \* CV scheme -> the chunks np.array_split produced for it
    ck,                             \* 1-based position in the chunk loop
    predictions,                    \* the per-path arrays returned by backtest_predictions
    probabilities,                  \* line 203: the combined probability series
    prices,                         \* the price series
    positions,                      \* line 204: the position series returned by strategy_bet_sizing
    strategy_log_returns            \* line 205: the return series of the trial

vars == <<strategy_parameters, models, overfitting_partitions_length, cell_returns,
          pc, combo, strategy_params, side_calls, mi, pj, ci, results, error,
          cv_deflated_sr, cv_pbo, ai, chunks, ck,
          predictions, probabilities, prices, positions, strategy_log_returns>>

sweepVars == <<combo, strategy_params, side_calls, mi, pj, ci, results>>
aggVars   == <<cv_deflated_sr, cv_pbo, ai, chunks, ck>>
inputVars == <<strategy_parameters, models, overfitting_partitions_length, cell_returns>>
trialVars == <<predictions, probabilities, prices, positions, strategy_log_returns>>

----------------------------------------------------------------------------
(* Bounds of the model *)

MaxModels == 2          \* most models in the registry
MaxCands == 2           \* most candidates of one hyper-parameter
NumTimestamps == 5      \* Spec, SpecAgg: the price index is 1..NumTimestamps
MaxChunkLen == 3        \* largest overfitting_partitions_length
MaxPaths == 2           \* SpecProb: most paths returned by backtest_predictions
NumSamples == 3         \* SpecProb: number of events (rows of data, times.index)
ProbScale == 3          \* SpecProb: probabilities are k/ProbScale, 0 < k < ProbScale
NumPrices == 3          \* SpecRet: the price index is 1..NumPrices
MaxLogPrice == 1        \* SpecRet: prices are 2^0 .. 2^MaxLogPrice

(* Program constants *)

NumCoupled == 4         \* lines 146-149: the pairing test names positions 0..3

CVNames == <<"Walk-Forward", "K-Fold", "Purged K-Fold", "Combinatorial Purged">>
CVs == {CVNames[i] : i \in 1..Len(CVNames)}
CVIndex(cv) == CHOOSE i \in 1..Len(CVNames) : CVNames[i] = cv

----------------------------------------------------------------------------
(* Helpers *)

SetMax(S) == CHOOSE x \in S : \A y \in S : y <= x
SetMin(S) == CHOOSE x \in S : \A y \in S : x <= y

RECURSIVE SortedSeq(_)
SortedSeq(S) == IF S = {} THEN <<>> ELSE <<SetMin(S)>> \o SortedSeq(S \ {SetMin(S)})

RECURSIVE Flatten(_)
Flatten(ss) == IF ss = <<>> THEN <<>> ELSE Head(ss) \o Flatten(Tail(ss))

RECURSIVE Product(_)
Product(lens) == IF lens = <<>> THEN 1 ELSE Head(lens) * Product(Tail(lens))

----------------------------------------------------------------------------
(* Grid Explorer, lines 143-153 *)

Keys == strategy_parameters.keys
fast_window == strategy_parameters.fast_window
slow_window == strategy_parameters.slow_window

\* itertools.product(*strategy_parameters_values): the last key varies fastest
NumCombos == Len(fast_window) * Len(slow_window)
FastPos(k) == IF Keys[1] = "fast_window" THEN (k \div Len(slow_window)) + 1
                                         ELSE (k % Len(fast_window)) + 1
SlowPos(k) == IF Keys[1] = "fast_window" THEN (k % Len(slow_window)) + 1
                                         ELSE (k \div Len(fast_window)) + 1

\* The pairing test without short-circuiting: every subscript is evaluated.
PairTestEager(f, s, i) ==
    IF Len(fast_window) < NumCoupled \/ Len(slow_window) < NumCoupled THEN "IndexError"
    ELSE IF \E j \in i..NumCoupled : f = fast_window[j] /\ s = slow_window[j] THEN "run"
    ELSE "skip"

\* Lines 146-149: `or` of four `and`s over positions 0..3 (here 1..4), evaluated
\* left to right with short-circuiting; a subscript beyond a list raises IndexError.
RECURSIVE PairTest(_, _, _)
PairTest(f, s, i) ==
    IF i > NumCoupled THEN "skip"
    ELSE IF i > Len(fast_window) THEN "IndexError"
    ELSE IF f = fast_window[i]
         THEN IF i > Len(slow_window) THEN "IndexError"
              ELSE IF s = slow_window[i] THEN "run"
              ELSE PairTest(f, s, i + 1)
    ELSE PairTest(f, s, i + 1)

EmptyResults == [cv \in CVs |-> <<>>]

\* Line 143: zip(*strategy_parameters.items()) unpacked into two names; an
\* empty mapping yields nothing to unpack and raises ValueError.
UnpackStrategyGrid ==
    /\ pc = "start"
    /\ IF Keys = <<>>
       THEN /\ pc' = "raised"
            /\ error' = "ValueError:unpack"
       ELSE /\ pc' = "strategy_loop"
            /\ error' = error
    /\ UNCHANGED <<inputVars, sweepVars, aggVars, trialVars>>

\* Lines 144-153: take the next combination of the product and test the pairing.
NextStrategy ==
    /\ pc = "strategy_loop"
    /\ combo < NumCombos
    /\ LET f == fast_window[FastPos(combo)]
           s == slow_window[SlowPos(combo)]
           t == PairTest(f, s, 1)
       IN  /\ strategy_params' = <<f, s>>
           /\ CASE t = "IndexError" ->
                     /\ pc' = "raised"
                     /\ error' = "IndexError"
                     /\ UNCHANGED <<combo, side_calls, mi>>
                [] t = "skip" ->
                     /\ pc' = "strategy_loop"
                     /\ combo' = combo + 1
                     /\ UNCHANGED <<error, side_calls, mi>>
                [] t = "run" ->
                     /\ pc' = "model_loop"
                     /\ side_calls' = Append(side_calls,
                            [fpos |-> FastPos(combo), spos |-> SlowPos(combo),
                             fast_window |-> f, slow_window |-> s])
                     /\ mi' = 1
                     /\ UNCHANGED <<error, combo>>
    /\ UNCHANGED <<inputVars, pj, ci, results, aggVars, trialVars>>

\* Line 144 exhausted: the sweep is over.
EndSweep ==
    /\ pc = "strategy_loop"
    /\ combo >= NumCombos
    /\ pc' = "init_maps"
    /\ UNCHANGED <<inputVars, sweepVars, error, aggVars, trialVars>>

\* Lines 191-196: next model of the registry; zip(*param_grid.items()) of an
\* empty hyper-parameter mapping raises ValueError.
NextModel ==
    /\ pc = "model_loop"
    /\ IF mi > Len(models)
       THEN /\ pc' = "strategy_loop"
            /\ combo' = combo + 1
            /\ UNCHANGED <<pj, error>>
       ELSE IF models[mi] = <<>>
       THEN /\ pc' = "raised"
            /\ error' = "ValueError:unpack"
            /\ UNCHANGED <<combo, pj>>
       ELSE /\ pc' = "param_loop"
            /\ pj' = 1
            /\ UNCHANGED <<combo, error>>
    /\ UNCHANGED <<inputVars, strategy_params, side_calls, mi, ci, results, aggVars, trialVars>>

\* Lines 197-199: next hyper-parameter combination of the current model.
NextParams ==
    /\ pc = "param_loop"
    /\ IF pj > Product(models[mi])
       THEN /\ pc' = "model_loop"
            /\ mi' = mi + 1
            /\ UNCHANGED ci
       ELSE /\ pc' = "cv_loop"
            /\ ci' = 1
            /\ UNCHANGED mi
    /\ UNCHANGED <<inputVars, combo, strategy_params, side_calls, pj, results, error, aggVars, trialVars>>

Trial(cv) == [sp |-> strategy_params, model |-> mi, params |-> pj,
              Returns |-> cell_returns[cv]..NumTimestamps]

\* Lines 201-213, one cell: predictions, probabilities, positions, returns, append.
RunCell ==
    /\ pc = "cv_loop"
    /\ ci <= Len(CVNames)
    /\ results' = [results EXCEPT ![CVNames[ci]] = Append(@, Trial(CVNames[ci]))]
    /\ ci' = ci + 1
    /\ UNCHANGED <<inputVars, pc, combo, strategy_params, side_calls, mi, pj, error, aggVars, trialVars>>

\* Lines 202-205, one cell whose collaborator (backtest_predictions, the model
\* fit inside it, strategy_bet_sizing) raises: nothing catches the exception.
CellFails ==
    /\ pc = "cv_loop"
    /\ ci <= Len(CVNames)
    /\ pc' = "raised"
    /\ error' = "CollaboratorError"
    /\ UNCHANGED <<inputVars, sweepVars, aggVars, trialVars>>

\* Line 201 exhausted.
EndCells ==
    /\ pc = "cv_loop"
    /\ ci > Len(CVNames)
    /\ pc' = "param_loop"
    /\ pj' = pj + 1
    /\ UNCHANGED <<inputVars, combo, strategy_params, side_calls, mi, ci, results, error, aggVars, trialVars>>

----------------------------------------------------------------------------
(* Overfitting Aggregator, lines 215-240 *)

\* Line 219: pd.concat(..., axis=1) aligns the trials' return series on the
\* union of their timestamps; the rows of the panel, in time order.
Panel(trials) == SortedSeq(UNION {trials[i].Returns : i \in 1..Len(trials)})

NChunksFloor(P, L) == P \div L

\* Line 222: ceil(performances.shape[0] / overfitting_partitions_length)
NChunks(P, L) == (P + L - 1) \div L

\* Line 223: np.array_split(ary, n) cuts ary into n sections; with
\* Neach, extras = divmod(len(ary), n), the first `extras` sections have
\* Neach + 1 rows and the others Neach rows.
SectionStart(len, n, k) ==
    LET Neach == len \div n
        extras == len % n
    IN  (k - 1) * Neach + (IF k - 1 < extras THEN k - 1 ELSE extras)
ArraySplit(ary, n) ==
    [k \in 1..n |-> SubSeq(ary, SectionStart(Len(ary), n, k) + 1,
                                SectionStart(Len(ary), n, k + 1))]

\* Lines 224-234 and 237: the statistics are external functions of the chunk.
DeflatedSR(chunk) == <<"deflated_sr", chunk>>
PBO(chunk) == <<"pbo", chunk>>

AppendStatFront(list, v) == <<v>> \o list

\* Lines 235, 238: list.append
AppendStat(list, v) == Append(list, v)

\* Lines 215-216: both result maps get the keys of results, each an empty list.
InitResultMaps ==
    /\ pc = "init_maps"
    /\ pc' = "agg_loop"
    /\ cv_deflated_sr' = [cv \in DOMAIN results |-> <<>>]
    /\ cv_pbo' = [cv \in DOMAIN results |-> <<>>]
    /\ ai' = 1
    /\ UNCHANGED <<inputVars, sweepVars, error, chunks, ck, trialVars>>

\* Lines 218-223: build the panel of the next scheme and split it. pd.concat of
\* an empty list raises ValueError; so does np.array_split into 0 sections.
AggregateScheme ==
    /\ pc = "agg_loop"
    /\ ai <= Len(CVNames)
    /\ LET cv == CVNames[ai]
           trials == results[cv]
           performances == Panel(trials)
           n_chunks == NChunks(Len(performances), overfitting_partitions_length)
       IN  IF trials = <<>>
           THEN /\ pc' = "raised"
                /\ error' = "ValueError:concat"
                /\ UNCHANGED <<chunks, ck>>
           ELSE IF n_chunks <= 0
           THEN /\ pc' = "raised"
                /\ error' = "ValueError:array_split"
                /\ UNCHANGED <<chunks, ck>>
           ELSE /\ pc' = "chunk_loop"
                /\ chunks' = [chunks EXCEPT ![cv] = ArraySplit(performances, n_chunks)]
                /\ ck' = 1
                /\ UNCHANGED error
    /\ UNCHANGED <<inputVars, sweepVars, cv_deflated_sr, cv_pbo, ai, trialVars>>

\* Lines 224-235: the deflated Sharpe statistic of the chunk is appended.
ChunkDeflatedSR ==
    /\ pc = "chunk_loop"
    /\ ck <= Len(chunks[CVNames[ai]])
    /\ cv_deflated_sr' = [cv_deflated_sr EXCEPT ![CVNames[ai]] =
                             AppendStat(@, DeflatedSR(chunks[CVNames[ai]][ck]))]
    /\ pc' = "chunk_pbo"
    /\ UNCHANGED <<inputVars, sweepVars, error, cv_pbo, ai, chunks, ck, trialVars>>

\* Lines 237-238: the PBO of the chunk is appended; on to the next chunk.
ChunkPBO ==
    /\ pc = "chunk_pbo"
    /\ cv_pbo' = [cv_pbo EXCEPT ![CVNames[ai]] = AppendStat(@, PBO(chunks[CVNames[ai]][ck]))]
    /\ ck' = ck + 1
    /\ pc' = "chunk_loop"
    /\ UNCHANGED <<inputVars, sweepVars, error, cv_deflated_sr, ai, chunks, trialVars>>

\* Line 223 exhausted: on to the next scheme.
EndChunks ==
    /\ pc = "chunk_loop"
    /\ ck > Len(chunks[CVNames[ai]])
    /\ pc' = "agg_loop"
    /\ ai' = ai + 1
    /\ UNCHANGED <<inputVars, sweepVars, error, cv_deflated_sr, cv_pbo, chunks, ck, trialVars>>

\* Line 240
Return ==
    /\ pc = "agg_loop"
    /\ ai > Len(CVNames)
    /\ pc' = "returned"
    /\ UNCHANGED <<inputVars, sweepVars, error, aggVars, trialVars>>

----------------------------------------------------------------------------
(* Trial Executor, lines 202-205.  A series is a function from its index to
   values; a value is NaN or a tuple holding the number. *)

NaN == <<>>

\* A probability k/ProbScale as the rational <<numerator, denominator>>
Prob(k) == <<k, ProbScale>>

\* Line 203, x[:, 1]: the positive-class column of one path's array
PositiveClass(x) == [i \in 1..Len(x) |-> x[i][2]]

RECURSIVE SumNum(_, _)
SumNum(rows, i) == IF rows = <<>> THEN 0 ELSE Head(rows)[i][1] + SumNum(Tail(rows), i)

\* Line 203, np.vstack(...).mean(axis=0): the plain mean of every column of the
\* stacked rows; one NaN in a column makes the mean of that column NaN.
MeanAxis0(rows) ==
    [i \in 1..Len(rows[1]) |->
        IF \E p \in 1..Len(rows) : rows[p][i] = NaN THEN NaN
        ELSE <<SumNum(rows, i), ProbScale * Len(rows)>>]

\* Series.dropna(): the entries that are not NaN
DropNa(series) == [t \in {u \in DOMAIN series : series[u] # NaN} |-> series[t]]

\* Line 203: the probability series over times.index
CombineProbabilities ==
    /\ pc = "predicted"
    /\ probabilities' = DropNa(MeanAxis0([p \in 1..Len(predictions) |->
                                             PositiveClass(predictions[p])]))
    /\ pc' = "combined"
    /\ UNCHANGED <<inputVars, sweepVars, error, aggVars, predictions, prices, positions,
                   strategy_log_returns>>

\* np.log of a price 2^e, in units of log 2
RECURSIVE Log2(_)
Log2(v) == IF v <= 1 THEN 0 ELSE 1 + Log2(v \div 2)
Log(series) == [t \in DOMAIN series |-> IF series[t] = NaN THEN NaN ELSE <<Log2(series[t][1])>>]

\* Series.diff(): the difference to the previous row, NaN on the first row
Diff(series) ==
    [t \in DOMAIN series |->
        IF t = 1 \/ series[t] = NaN \/ series[t - 1] = NaN THEN NaN
        ELSE <<series[t][1] - series[t - 1][1]>>]

NoShift(series) == series

\* Series.shift(): every value moves one row down, NaN on the first row
Shift(series) == [t \in DOMAIN series |-> IF t = 1 THEN NaN ELSE series[t - 1]]

\* Series * Series, aligned on the index; NaN where either side is NaN or absent
Mul(a, b) ==
    [t \in DOMAIN a \cup DOMAIN b |->
        IF t \notin DOMAIN a \/ t \notin DOMAIN b THEN NaN
        ELSE IF a[t] = NaN \/ b[t] = NaN THEN NaN
        ELSE <<a[t][1] * b[t][1]>>]

PositionValues == {NaN, <<-1>>, <<0>>, <<1>>}

\* Line 204: strategy_bet_sizing returns a position for every timestamp of
\* prices.index (its first argument); the sizes are the collaborator's choice.
BetSizing ==
    /\ pc = "bet_sizing"
    /\ positions' \in [DOMAIN prices -> PositionValues]
    /\ pc' = "returns"
    /\ UNCHANGED <<inputVars, sweepVars, error, aggVars, predictions, probabilities, prices,
                   strategy_log_returns>>

\* Line 205: (np.log(prices).diff() * positions.shift()).dropna()
ComputeReturns ==
    /\ pc = "returns"
    /\ strategy_log_returns' = DropNa(Mul(Diff(Log(prices)), Shift(positions)))
    /\ pc' = "trial_done"
    /\ UNCHANGED <<inputVars, sweepVars, error, aggVars, predictions, probabilities, prices,
                   positions>>

----------------------------------------------------------------------------
(* Inputs and initial states *)

\* Candidate lists up to renaming of the values (the code only compares
\* candidates for equality): the first value is 1 and every later value is at
\* most one more than the largest before it. <<1,1,2>> has a repeated value.
Patterns(n) ==
    {s \in [1..n -> 1..n] :
        \A i \in 1..n : s[i] <= 1 + SetMax({0} \cup {s[j] : j \in 1..(i - 1)})}
\* The lists have up to NumCoupled candidates: the pairing test reads no
\* position beyond that.
CandidateLists == UNION {Patterns(n) : n \in 0..NumCoupled}
Slow(s) == [i \in 1..Len(s) |-> 10 * s[i]]

KeyOrders == {<<"fast_window", "slow_window">>, <<"slow_window", "fast_window">>}
NoGrid == [keys |-> <<>>, fast_window |-> <<>>, slow_window |-> <<>>]
StrategyGrids ==
    {NoGrid} \cup
    {[keys |-> k, fast_window |-> f, slow_window |-> Slow(s)] :
        k \in KeyOrders, f \in CandidateLists, s \in CandidateLists}
DiagGrid(n) == [keys |-> <<"fast_window", "slow_window">>,
                fast_window |-> [i \in 1..n |-> i],
                slow_window |-> [i \in 1..n |-> 10 * i]]

\* A hyper-parameter grid is the list of the lengths of its candidate lists;
\* <<>> is the empty mapping.
ParamGrids == {<<>>, <<MaxCands, MaxCands>>} \cup {<<c>> : c \in 0..MaxCands}
Registries == UNION {[1..n -> ParamGrids] : n \in 0..MaxModels}
DefaultRegistry == << <<1>> >>

FullReturns == [cv \in CVs |-> 2]
ShortWalkForward == [cv \in CVs |-> IF cv = "Walk-Forward" THEN 3 ELSE 2]

IdleTrial ==
    /\ predictions = <<>>
    /\ probabilities = <<>>
    /\ prices = <<>>
    /\ positions = <<>>
    /\ strategy_log_returns = <<>>

IdleAgg ==
    /\ cv_deflated_sr = <<>>
    /\ cv_pbo = <<>>
    /\ ai = 1
    /\ chunks = [cv \in CVs |-> <<>>]
    /\ ck = 1

\* The state at line 142: the inputs, and the trial store of lines 135-140.
Init ==
    /\ \/ /\ strategy_parameters \in StrategyGrids
          /\ models = DefaultRegistry
       \/ /\ strategy_parameters \in {DiagGrid(1), DiagGrid(2), DiagGrid(NumCoupled)}
          /\ models \in Registries
    /\ overfitting_partitions_length = MaxChunkLen
    /\ cell_returns = ShortWalkForward
    /\ pc = "start"
    /\ combo = 0
    /\ strategy_params = <<>>
    /\ side_calls = <<>>
    /\ mi = 1
    /\ pj = 1
    /\ ci = 1
    /\ results = EmptyResults
    /\ error = "none"
    /\ IdleAgg
    /\ IdleTrial

SweepNext ==
    \/ UnpackStrategyGrid
    \/ NextStrategy
    \/ EndSweep
    \/ NextModel
    \/ NextParams
    \/ RunCell
    \/ CellFails
    \/ EndCells

AggNext ==
    \/ InitResultMaps
    \/ AggregateScheme
    \/ ChunkDeflatedSR
    \/ ChunkPBO
    \/ EndChunks
    \/ Return

Next == SweepNext \/ AggNext

Spec == Init /\ [][Next]_vars

\* The state at line 215 after a sweep of one strategy and one model
\* configuration: every bucket holds one trial, whose return series starts
\* where the scheme's collaborators made it start.
InitAgg ==
    /\ strategy_parameters = DiagGrid(1)
    /\ models = DefaultRegistry
    /\ overfitting_partitions_length \in 1..MaxChunkLen
    /\ cell_returns \in [CVs -> 2..(NumTimestamps + 1)]
    /\ pc = "init_maps"
    /\ combo = 1
    /\ strategy_params = <<1, 10>>
    /\ side_calls = <<[fpos |-> 1, spos |-> 1, fast_window |-> 1, slow_window |-> 10]>>
    /\ mi = 2
    /\ pj = 2
    /\ ci = Len(CVNames) + 1
    /\ results = [cv \in CVs |-> <<[sp |-> <<1, 10>>, model |-> 1, params |-> 1,
                                    Returns |-> cell_returns[cv]..NumTimestamps]>>]
    /\ error = "none"
    /\ IdleAgg
    /\ IdleTrial

SpecAgg == InitAgg /\ [][AggNext]_vars

IdleRun ==
    /\ strategy_parameters = NoGrid
    /\ models = <<>>
    /\ overfitting_partitions_length = 1
    /\ cell_returns = FullReturns
    /\ combo = 0
    /\ strategy_params = <<>>
    /\ side_calls = <<>>
    /\ mi = 1
    /\ pj = 1
    /\ ci = 1
    /\ results = EmptyResults
    /\ error = "none"
    /\ IdleAgg

\* One path's array: a row <<P(class 0), P(class 1)>> per sample, NaN on the
\* samples the path does not cover.
PredictionRows == {<<NaN, NaN>>} \cup {<<Prob(ProbScale - k), Prob(k)>> : k \in 1..(ProbScale - 1)}
PathArrays == [1..NumSamples -> PredictionRows]

\* The state at line 203: backtest_predictions has returned.
InitProb ==
    /\ IdleRun
    /\ pc = "predicted"
    /\ predictions \in UNION {[1..k -> PathArrays] : k \in 1..MaxPaths}
    /\ probabilities = <<>>
    /\ prices = <<>>
    /\ positions = <<>>
    /\ strategy_log_returns = <<>>

SpecProb == InitProb /\ [][CombineProbabilities]_vars

RECURSIVE Pow2(_)
Pow2(e) == IF e = 0 THEN 1 ELSE 2 * Pow2(e - 1)
PriceValues == {NaN} \cup {<<Pow2(e)>> : e \in 0..MaxLogPrice}

\* The state at line 204.
InitRet ==
    /\ IdleRun
    /\ pc = "bet_sizing"
    /\ predictions = <<>>
    /\ probabilities = <<>>
    /\ prices \in [1..NumPrices -> PriceValues]
    /\ positions = <<>>
    /\ strategy_log_returns = <<>>

RetNext == BetSizing \/ ComputeReturns

SpecRet == InitRet /\ [][RetNext]_vars

----------------------------------------------------------------------------
(* Properties *)

Distinct(s) == \A i, j \in 1..Len(s) : i # j => s[i] # s[j]

\* The sweep is over: line 215 has been reached.
SweepDone == pc \in {"init_maps", "agg_loop", "chunk_loop", "chunk_pbo", "returned"}
             \/ error \in {"ValueError:concat", "ValueError:array_split"}

\* Line 223 has been executed for scheme cv.
Split(cv) ==
    \/ CVIndex(cv) < ai
    \/ CVIndex(cv) = ai /\ pc \in {"chunk_loop", "chunk_pbo"}
    \/ CVIndex(cv) = ai /\ error = "ValueError:array_split"

\* The least n with n * L >= P
CeilDiv(P, L) == CHOOSE n \in 0..P : n * L >= P /\ \A m \in 0..(n - 1) : m * L < P

\* C1: for every scheme whose panel has been split, the number of chunks is
\* ceil(P / L) for the panel's P rows and the chunk length L >= 1, every row of
\* the panel is in exactly one chunk, and the chunks one after the other are the
\* rows of the panel in time order.
C1_ChunksPartitionPanel ==
    \A cv \in CVs : Split(cv) =>
        LET rows == Panel(results[cv])
            cs == chunks[cv]
        IN  /\ Len(cs) = CeilDiv(Len(rows), overfitting_partitions_length)
            /\ Flatten(cs) = rows
            /\ \A r \in 1..Len(rows) :
                  Cardinality({kc \in {<<k, i>> : k \in 1..Len(cs), i \in 1..NumTimestamps} :
                                  /\ kc[2] <= Len(cs[kc[1]])
                                  /\ cs[kc[1]][kc[2]] = rows[r]}) = 1
            /\ \A r \in 1..(Len(rows) - 1) : rows[r] < rows[r + 1]

\* C1 witness: a panel whose length is no multiple of the chunk length has
\* been split into several chunks.
C1_Witness ==
    \E cv \in CVs :
        /\ Split(cv)
        /\ Len(chunks[cv]) >= 2
        /\ Len(Panel(results[cv])) % overfitting_partitions_length # 0

\* C2: with four candidates for each of fast_window and slow_window, a
\* combination reaches determine_strategy_side only from the same position of
\* both lists, and once the sweep is over exactly the four positions (i, i)
\* have been realized, whatever the candidate values are.
C2_CoupledGridPositional ==
    (Len(fast_window) = NumCoupled /\ Len(slow_window) = NumCoupled) =>
        /\ \A c \in 1..Len(side_calls) : side_calls[c].fpos = side_calls[c].spos
        /\ SweepDone => Len(side_calls) = NumCoupled

\* C3: a run with an empty strategy grid or an empty model grid whose
\* collaborators do not fail does not raise, and when it has returned both
\* result maps hold the four scheme keys.
EmptyGrid ==
    \/ Keys = <<>>
    \/ fast_window = <<>>
    \/ slow_window = <<>>
    \/ models = <<>>
    \/ \E m \in 1..Len(models) : models[m] = <<>> \/ \E h \in 1..Len(models[m]) : models[m][h] = 0
C3_EmptyGridIsValidRun ==
    (EmptyGrid /\ error # "CollaboratorError") =>
        /\ pc # "raised"
        /\ pc = "returned" => DOMAIN cv_pbo = CVs /\ DOMAIN cv_deflated_sr = CVs

\* C4: a collaborator failure in one cell never ends the run.
C4_FailureAbortsOnlyItsCell == ~(pc = "raised" /\ error = "CollaboratorError")

Boundaries(cs) == [k \in 1..Len(cs) |-> <<cs[k][1], cs[k][Len(cs[k])]>>]

\* C5: when the run has returned, the chunks of any two schemes have the same
\* first and last timestamps, chunk by chunk.
C5_SameBoundariesAcrossSchemes ==
    pc = "returned" =>
        \A cv1, cv2 \in CVs : Boundaries(chunks[cv1]) = Boundaries(chunks[cv2])

\* C6: every chunk but the last has overfitting_partitions_length rows, and the
\* last one has the remaining P - L * (ceil(P / L) - 1) rows.
C6_FixedChunkLength ==
    \A cv \in CVs : Split(cv) =>
        LET P == Len(Panel(results[cv]))
            L == overfitting_partitions_length
            n == Len(chunks[cv])
        IN  \A k \in 1..n :
                Len(chunks[cv][k]) = IF k < n THEN L ELSE P - L * (CeilDiv(P, L) - 1)

\* The paths that cover sample i
Covering(i) == {p \in 1..Len(predictions) : predictions[p][i][2] # NaN}
RECURSIVE SumOver(_, _)
SumOver(ps, i) ==
    IF ps = {} THEN 0
    ELSE LET p == CHOOSE q \in ps : TRUE
         IN  predictions[p][i][2][1] + SumOver(ps \ {p}, i)
RatEq(a, b) == a[1] * b[2] = b[1] * a[2]

\* C7: in the combined probability series a sample is present exactly when at
\* least one path covers it, and its probability is the average of the
\* estimates of the paths that cover it.
C7_AverageOverCoveringPaths ==
    pc = "combined" =>
        \A i \in 1..NumSamples :
            IF Covering(i) = {} THEN i \notin DOMAIN probabilities
            ELSE /\ i \in DOMAIN probabilities
                 /\ RatEq(probabilities[i],
                          <<SumOver(Covering(i), i), ProbScale * Cardinality(Covering(i))>>)

\* C8: every entry of the return series is at a timestamp t after the first,
\* the prices at t and t - 1 and the position at t - 1 are defined, and the
\* return is (log price at t - log price at t - 1) times the position at t - 1.
C8_NoLookAhead ==
    pc = "trial_done" =>
        \A t \in DOMAIN strategy_log_returns :
            /\ t > 1
            /\ prices[t] # NaN
            /\ prices[t - 1] # NaN
            /\ positions[t - 1] # NaN
            /\ strategy_log_returns[t] =
                   <<(Log2(prices[t][1]) - Log2(prices[t - 1][1])) * positions[t - 1][1]>>

\* C8 witness: a return computed from a price move and a previous position
\* that differs from the current one, and a timestamp dropped for want of a
\* previous position.
C8_Witness ==
    /\ pc = "trial_done"
    /\ \E t \in DOMAIN strategy_log_returns :
          /\ strategy_log_returns[t] # <<0>>
          /\ positions[t] # positions[t - 1]
    /\ \E t \in 2..NumPrices : t \notin DOMAIN strategy_log_returns /\ positions[t - 1] = NaN

\* C9: when the run has returned, every scheme has as many PBO values and as
\* many deflated Sharpe statistics as it has chunks, and the k-th of each is
\* the statistic of the k-th chunk.
C9_OneStatisticPerChunkInOrder ==
    pc = "returned" =>
        \A cv \in CVs :
            /\ Len(cv_pbo[cv]) = Len(chunks[cv])
            /\ Len(cv_deflated_sr[cv]) = Len(chunks[cv])
            /\ Len(chunks[cv]) = CeilDiv(Len(Panel(results[cv])), overfitting_partitions_length)
            /\ \A k \in 1..Len(chunks[cv]) :
                  /\ cv_pbo[cv][k] = PBO(chunks[cv][k])
                  /\ cv_deflated_sr[cv][k] = DeflatedSR(chunks[cv][k])

\* C9 witness: a returned run with a scheme of several chunks and two schemes
\* of different chunk counts.
C9_Witness ==
    /\ pc = "returned"
    /\ \E cv1, cv2 \in CVs : Len(cv_pbo[cv1]) >= 2 /\ Len(cv_pbo[cv2]) # Len(cv_pbo[cv1])

\* The number of model configurations of the registry
RECURSIVE NumConfigs(_)
NumConfigs(ms) == IF ms = <<>> THEN 0 ELSE Product(Head(ms)) + NumConfigs(Tail(ms))

EqualDistinctLists(n) ==
    /\ Len(fast_window) = n
    /\ Len(slow_window) = n
    /\ Distinct(fast_window)
    /\ Distinct(slow_window)

\* What holds of a sweep over two lists of n distinct candidates, n in 2..3,
\* that ended in an IndexError raised while testing the combination `at`.
IndexErrorAt(at) ==
    /\ strategy_params = at
    /\ \A cv \in CVs :
          /\ Len(results[cv]) = NumConfigs(models)
          /\ \A r \in 1..Len(results[cv]) : results[cv][r].sp = <<fast_window[1], slow_window[1]>>

\* C10 as claimed: for lists of n distinct candidates, n in 2..3, the sweep is
\* never over, and an IndexError is raised while testing (fast[0], slow[1]),
\* every bucket then holding the trials of (fast[0], slow[0]); for n = 1 no
\* IndexError is raised.
C10_IndexErrorAtFast0Slow1 ==
    /\ \A n \in 2..(NumCoupled - 1) : EqualDistinctLists(n) =>
          /\ ~SweepDone
          /\ error = "IndexError" => IndexErrorAt(<<fast_window[1], slow_window[2]>>)
    /\ EqualDistinctLists(1) => error # "IndexError"

\* C10 amended: as claimed, but the combination under test is the second of
\* the product: (fast[0], slow[1]) when fast_window is the first key of the
\* grid, (fast[1], slow[0]) when slow_window is.
C10_IndexErrorAtSecondCombination ==
    /\ \A n \in 2..(NumCoupled - 1) : EqualDistinctLists(n) =>
          /\ ~SweepDone
          /\ error = "IndexError" =>
                /\ combo = 1
                /\ IndexErrorAt(IF Keys[1] = "fast_window"
                                THEN <<fast_window[1], slow_window[2]>>
                                ELSE <<fast_window[2], slow_window[1]>>)
    /\ EqualDistinctLists(1) => error # "IndexError"

\* C10 witness: the IndexError of a grid that lists slow_window first, raised
\* after two trials per bucket.
C10_Witness ==
    /\ error = "IndexError"
    /\ EqualDistinctLists(NumCoupled - 1)
    /\ Keys[1] = "slow_window"
    /\ \A cv \in CVs : Len(results[cv]) >= 1

\* C10 second witness: a single-candidate grid whose run returned.
C10_WitnessSingle == EqualDistinctLists(1) /\ pc = "returned"

====
